---- MODULE Spec2Model ----
(***************************************************************************)
(* Off-chain Bayesian-network oracle and its posterior synchronisation    *)
(* with the on-chain claim store (orchestrator/*.py).                      *)
(*                                                                         *)
(* Probabilities are exact rationals [n, d] (n / d); the Python code uses  *)
(* doubles.  The ledger side (CPTStore, ClaimRegistry, EvidenceRegistry,   *)
(* OracleController) and offChain.bn_oracle.BNOracle are not part of the   *)
(* orchestrator sources; they are modelled from their interface.           *)
(***************************************************************************)
EXTENDS Integers, Sequences, FiniteSets, TLC

\* ------------------------------------------------------------------------
\* Program constants
\* ------------------------------------------------------------------------

\* SCALE = 1_000_000  (must match CPTStore.SCALE)
SCALE == 1000000

\* EVIDENCE_NAMES = ["GPS", "PC", "PMD", "PR"]  (1-based here, 0-based in Python)
EVIDENCE_NAMES == <<"GPS", "PC", "PMD", "PR">>

\* idx_to_name = {0: "GPS", 1: "PC", 2: "PMD", 3: "PR"}
idx_to_name == [i \in 0..3 |-> EVIDENCE_NAMES[i + 1]]

Names == {EVIDENCE_NAMES[i] : i \in 1..Len(EVIDENCE_NAMES)}

\* The four joint hidden states (pph, ppr).
Hidden == {0, 1} \X {0, 1}

\* ------------------------------------------------------------------------
\* Bounds of the model
\* ------------------------------------------------------------------------

\* Longest evidence list in the registry.
MaxEvidence == 2

\* Claims opened by other parties during a run.
MaxOtherOpens == 1

\* ------------------------------------------------------------------------
\* Exact arithmetic helpers
\* ------------------------------------------------------------------------

Abs(x) == IF x < 0 THEN -x ELSE x

RECURSIVE GcdNat(_, _)
GcdNat(a, b) == IF b = 0 THEN a ELSE GcdNat(b, a % b)

Gcd(a, b) == GcdNat(Abs(a), Abs(b))

\* <<q, r>> with a * b = q * d + r and 0 <= r < d, for 0 <= a < d, b >= 0,
\* computed by doubling so that no intermediate exceeds 3 * d.
RECURSIVE MulDivMod(_, _, _)
MulDivMod(a, b, d) ==
    IF b = 0 THEN <<0, 0>>
    ELSE LET h == MulDivMod(a, b \div 2, d)
             r == 2 * h[2] + (b % 2) * a
         IN  <<2 * h[1] + (r \div d), r % d>>

\* |n| * SCALE = q * d + r for a rational n / d with d > 0: <<q, r>>.
ScaleDivMod(n, d) ==
    LET a == Abs(n)
        m == MulDivMod(a % d, SCALE, d)
    IN  <<(a \div d) * SCALE + m[1], m[2]>>

Sign(n, d) == IF (n < 0) = (d < 0) THEN 1 ELSE -1

\* ------------------------------------------------------------------------
\* Parameter store contents (CPTStore): raw scaled integers
\* ------------------------------------------------------------------------

\* A CPT table given by its four cells.
Table(c00, c01, c10, c11) ==
    [s \in Hidden |-> IF s = <<0, 0>> THEN c00
                      ELSE IF s = <<0, 1>> THEN c01
                      ELSE IF s = <<1, 0>> THEN c10 ELSE c11]

\* Variant of Neutral: one cell is 0.6.
Neutral_biased == Table(500000, 500000, 600000, 500000)

Neutral == Table(500000, 500000, 500000, 500000)

\* What fill_cpts.py writes (every cell 0.5), with the priors (0.3, 0.4).
StoreNeutral ==
    [priorPPH |-> 300000, priorPPR |-> 400000,
     cpt |-> [i \in 0..3 |-> Neutral]]

\* GPS is 0.9 if pph = 1 else 0.1; the other tables neutral; uniform priors.
StoreGps ==
    [priorPPH |-> 500000, priorPPR |-> 500000,
     cpt |-> [i \in 0..3 |-> IF i = 0 THEN Table(100000, 100000, 900000, 900000)
                             ELSE Neutral]]

\* Every table is 1 at (1,1) and 0 elsewhere; uniform priors.
StoreDeterministic ==
    [priorPPH |-> 500000, priorPPR |-> 500000,
     cpt |-> [i \in 0..3 |-> Table(0, 0, 0, 1000000)]]

\* Four informative tables.
StoreInformative ==
    [priorPPH |-> 300000, priorPPR |-> 400000,
     cpt |-> [i \in 0..3 |->
                IF i = 0 THEN Table(200000, 200000, 800000, 800000)
                ELSE IF i = 1 THEN Table(400000, 700000, 400000, 700000)
                ELSE IF i = 2 THEN Table(100000, 300000, 600000, 900000)
                ELSE Table(250000, 750000, 250000, 750000)]]

\* Dyadic cells: GPS is 5/64 (pph = 1) or 3/64, PC is 1/64 (pph = 1) or 41/64.
\* P(PPH=1 | GPS=1, PC=1) = 5/128, exactly halfway between 39062 and 39063
\* millionths (and exact in double precision as well).
StoreHalfway ==
    [priorPPH |-> 500000, priorPPR |-> 500000,
     cpt |-> [i \in 0..3 |-> IF i = 0 THEN Table(46875, 46875, 78125, 78125)
                             ELSE IF i = 1 THEN Table(640625, 640625, 15625, 15625)
                             ELSE Neutral]]

\* A corrupted store: one GPS cell row holds 2 * SCALE.
StoreCorrupt ==
    [priorPPH |-> 500000, priorPPR |-> 500000,
     cpt |-> [i \in 0..3 |-> IF i = 0 THEN Table(500000, 500000, 2000000, 2000000)
                             ELSE Neutral]]

ParamStores ==
    {StoreNeutral, StoreGps, StoreDeterministic, StoreInformative,
     StoreHalfway, StoreCorrupt}

\* CPTStore.priorPPH().call(), priorPPR().call(), getEvidenceTrueCPT(i, pph, ppr).call()
priorPPH(store) == store.priorPPH
priorPPR(store) == store.priorPPR
getEvidenceTrueCPT(store, ev_idx, pph, ppr) == store.cpt[ev_idx][<<pph, ppr>>]

\* ------------------------------------------------------------------------
\* bn_from_chain.py
\* ------------------------------------------------------------------------

\* Variant of Descale: the loader divides by half the store's scale.
Descale_drift(scaled) == [n |-> scaled, d |-> SCALE \div 2]

\* scaled / SCALE
Descale(scaled) == [n |-> scaled, d |-> SCALE]

\* load_priors_and_cpts_from_chain: 2 + 16 reads, each divided by SCALE.
\* No range check follows the division.
load_priors_and_cpts_from_chain(store) ==
    [priors |-> [PPH |-> Descale(priorPPH(store)),
                 PPR |-> Descale(priorPPR(store))],
     cpts   |-> [name \in Names |->
                   LET ev_idx == CHOOSE i \in DOMAIN idx_to_name : idx_to_name[i] = name
                   IN  [s \in Hidden |->
                          Descale(getEvidenceTrueCPT(store, ev_idx, s[1], s[2]))]]]

\* BNOracle(priors, cpts): the parameter model.
BNOracle(priors, cpts) == [priors |-> priors, cpts |-> cpts]

\* build_bn_from_chain
build_bn_from_chain(store) ==
    LET pc0 == load_priors_and_cpts_from_chain(store)
    IN  BNOracle(pc0.priors, pc0.cpts)

\* ------------------------------------------------------------------------
\* offChain.bn_oracle.BNOracle.infer (exact enumeration over the 4 joint states)
\* ------------------------------------------------------------------------

\* Weights are kept as integer numerators; a common positive factor is
\* divided out after every multiplication (normalisation cancels it anyway).
Reduce(w) ==
    LET g == Gcd(Gcd(w[<<0, 0>>], w[<<0, 1>>]), Gcd(w[<<1, 0>>], w[<<1, 1>>]))
    IN  IF g = 0 THEN w ELSE [s \in Hidden |-> w[s] \div g]

\* P(H = h) as a numerator over p.d
Marginal(p, h) == IF h = 1 THEN p.n ELSE p.d - p.n

\* priorJoint[(pph, ppr)] = P(PPH = pph) * P(PPR = ppr)
priorJoint(bn) ==
    LET fh == Reduce([s \in Hidden |-> Marginal(bn.priors.PPH, s[1])])
        fr == Reduce([s \in Hidden |-> Marginal(bn.priors.PPR, s[2])])
    IN  Reduce([s \in Hidden |-> fh[s] * fr[s]])

\* P(var = v | pph, ppr): the CPT value for v = 1, one minus it for v = 0.
Likelihood(bn, name, v) ==
    Reduce([s \in Hidden |-> Marginal(bn.cpts[name][s], v)])

\* The unnormalised weights after the factors of EVIDENCE_NAMES[1..k]
\* that are present in the evidence.
RECURSIVE Weights(_, _, _)
Weights(bn, evidence, k) ==
    IF k = 0 THEN priorJoint(bn)
    ELSE LET w    == Weights(bn, evidence, k - 1)
             name == EVIDENCE_NAMES[k]
         IN  IF name \in DOMAIN evidence
             THEN LET f == Likelihood(bn, name, evidence[name])
                  IN  Reduce([s \in Hidden |-> w[s] * f[s]])
             ELSE w

\* A rational with a positive denominator.
Rat(n, d) == IF d < 0 THEN [n |-> -n, d |-> -d] ELSE [n |-> n, d |-> d]

\* infer(evidence): {"PPH": P(PPH=1|e), "PPR": P(PPR=1|e)} or an error.
infer(bn, evidence) ==
    IF ~(DOMAIN evidence \subseteq Names)
    THEN [error |-> "UnknownVariableError"]
    ELSE LET w     == Weights(bn, evidence, Len(EVIDENCE_NAMES))
             total == w[<<0, 0>>] + w[<<0, 1>>] + w[<<1, 0>>] + w[<<1, 1>>]
         IN  IF total = 0
             THEN [error |-> "DegenerateEvidenceError"]
             ELSE [error |-> "none",
                   PPH |-> Rat(w[<<1, 0>>] + w[<<1, 1>>], total),
                   PPR |-> Rat(w[<<0, 1>>] + w[<<1, 1>>], total)]

\* ------------------------------------------------------------------------
\* Fixed-point conversion at the ledger boundary
\* ------------------------------------------------------------------------

\* Python 3 round(): to the nearest integer, a tie to the even one.
round(n, d) ==
    LET qr == ScaleDivMod(n, d)
        q  == qr[1]
        r  == qr[2]
        up == 2 * r > d \/ (2 * r = d /\ q % 2 = 1)
    IN  Sign(n, d) * (IF up THEN q + 1 ELSE q)

\* int(round(float(p) * SCALE))
to_scaled(p) == round(p.n, p.d)

\* ------------------------------------------------------------------------
\* dynamic_claim_flow.py: _fetch_evidence_for_claim
\* ------------------------------------------------------------------------

EmptyDict == <<>>

\* evidence_values[name] = value
Put(dict, name, value) ==
    [x \in (DOMAIN dict) \cup {name} |-> IF x = name THEN value ELSE dict[x]]

\* EvidenceRegistry.getEvidenceIdsForClaim(claim_id): the ids (positions) of
\* the rows filed for the claim, in filing order.
RECURSIVE getEvidenceIdsForClaim(_, _)
getEvidenceIdsForClaim(rows, claim_id) ==
    IF rows = <<>> THEN <<>>
    ELSE LET front == SubSeq(rows, 1, Len(rows) - 1)
             ids   == getEvidenceIdsForClaim(front, claim_id)
         IN  IF rows[Len(rows)].claimId = claim_id
             THEN Append(ids, Len(rows)) ELSE ids

\* Variant of FoldPiece: a name already in the dict keeps its first value.
FoldPiece_first(dict, ev) ==
    LET idx == ev.evidenceIndex
    IN  IF idx < Len(EVIDENCE_NAMES) /\ EVIDENCE_NAMES[idx + 1] \notin DOMAIN dict
        THEN Put(dict, EVIDENCE_NAMES[idx + 1], ev.value)
        ELSE dict

\* One iteration of the loop over ids: a row whose index is not below
\* len(EVIDENCE_NAMES) leaves the dict unchanged.
FoldPiece(dict, ev) ==
    LET idx == ev.evidenceIndex
    IN  IF idx < Len(EVIDENCE_NAMES)
        THEN Put(dict, EVIDENCE_NAMES[idx + 1], ev.value)
        ELSE dict

RECURSIVE FoldIds(_, _, _)
FoldIds(rows, ids, k) ==
    IF k = 0 THEN EmptyDict
    ELSE FoldPiece(FoldIds(rows, ids, k - 1), rows[ids[k]])

_fetch_evidence_for_claim(rows, claim_id) ==
    LET ids == getEvidenceIdsForClaim(rows, claim_id)
    IN  FoldIds(rows, ids, Len(ids))

\* ------------------------------------------------------------------------
\* Ledger: ClaimRegistry rows and OracleController.submitInference
\* ------------------------------------------------------------------------

ClaimIds == {0, 1}

\* claim tuple: (id, physician, openedAt, lastUpdatedAt, bnInstanceId,
\*               posteriorPPH, posteriorPPR, closed); Python index k is k + 1 here.
NewClaim(id, now) == <<id, "physician", now, now, 0, 0, 0, FALSE>>

\* ClaimRegistry.openClaim: the new claim takes the id nextClaimId.
openClaim(rows, next, now) ==
    [c \in (DOMAIN rows) \cup {next} |-> IF c = next THEN NewClaim(next, now) ELSE rows[c]]

\* Block timestamps are not followed: every block carries this one value
\* (seconds since the epoch, far above SCALE).
Timestamp == 1700 * SCALE

\* The stored fixed-point posterior pair of a row.
Stored(row) == <<row[6], row[7]>>

\* submitInference(claimId, posteriorPPH, posteriorPPR), executed at time `now`.
submitInference(rows, id, pair, now) ==
    [rows EXCEPT ![id] = [@ EXCEPT ![4] = now, ![6] = pair[1], ![7] = pair[2]]]

\* ------------------------------------------------------------------------
\* claim_lifecycle_demo.py: the staged evidence
\* ------------------------------------------------------------------------

Dict1(a, x) == [n \in {a} |-> x]
\* run_experiment_grid.py: the evidence of iteration evidence_id, in the
\* order of product((0, 1), repeat=4) over (GPS, PC, PMD, PR).
GridEvidence(evidence_id) ==
    [n \in Names |->
       IF n = "GPS" THEN (evidence_id \div 8) % 2
       ELSE IF n = "PC" THEN (evidence_id \div 4) % 2
       ELSE IF n = "PMD" THEN (evidence_id \div 2) % 2
       ELSE evidence_id % 2]

GridPatterns == 16

\* Variant of stages: the third stage drops PC.
stages_retract ==
    << Dict1("GPS", 1),
       Put(Dict1("GPS", 1), "PC", 0),
       Put(Dict1("GPS", 1), "PMD", 1),
       Put(Put(Put(Dict1("GPS", 1), "PC", 0), "PMD", 1), "PR", 0) >>

stages ==
    << Dict1("GPS", 1),
       Put(Dict1("GPS", 1), "PC", 0),
       Put(Put(Dict1("GPS", 1), "PC", 0), "PMD", 1),
       Put(Put(Put(Dict1("GPS", 1), "PC", 0), "PMD", 1), "PR", 0) >>

\* ------------------------------------------------------------------------
\* State
\* ------------------------------------------------------------------------

\* One run of each script.
Procs == {"dynamic_claim_flow", "claim_lifecycle_demo", "run_experiment_grid"}

\* main() of dynamic_claim_flow.py calls _compute_and_commit_posterior twice.
Phases == <<"Phase 1", "Phase 2">>

None == <<>>
NoPair == <<-1, -1>>
NoCall == [outcome |-> "none"]

VARIABLES
    cpt_store,     \* CPTStore: raw priors and CPT cells
    claims,        \* ClaimRegistry.claims: claimId -> row
    nextClaimId,   \* ClaimRegistry.nextClaimId
    evidences,     \* EvidenceRegistry.evidences: rows in filing order
    claim_id,      \* the claim each process works on
    bn,            \* the process's BNOracle (None before it is built)
    pc,            \* where each process stands ("off": the script is not run)
    done,          \* calls (dynamic flow), stages (lifecycle) or patterns (grid) completed
    ids,           \* local: ids returned by getEvidenceIdsForClaim
    evidence,      \* local: the evidence snapshot of the call in progress
    scaled,        \* local: <<scaled_pph, scaled_ppr>> submitted
    tx,            \* the transaction the process waits for: none / pending / mined
    readback,      \* local: the pair read back from the claim row
    truth,         \* the posterior pair the row held when it was read back
    dirty,         \* another submission reached the dynamic flow's claim since its call began
    prev_dirty,    \* the same, from the start of its previous call to the start of this one
    last,          \* record of the process's last completed call
    failed,        \* the collaborator call of the process that failed, if any
    mempool,       \* addEvidence transactions sent and not yet executed, in sending order
    own            \* the id of the claim the process's own openClaim transaction created

vars == <<cpt_store, claims, nextClaimId, evidences, claim_id, bn, pc, done, ids,
          evidence, scaled, tx, readback, truth, dirty, prev_dirty, last,
          failed, mempool, own>>

chain == <<cpt_store, claims, nextClaimId, evidences>>
locals == <<ids, evidence, scaled, tx, readback>>
ghost == <<truth, dirty, prev_dirty>>
extra == <<failed, mempool, own>>

\* No claim: the process's own openClaim transaction has not been executed.
NoClaim == -1

\* Evidence rows over the given claims and indices, lists of at most n rows.
Pieces(cs, idxs) == [claimId : cs, evidenceIndex : idxs, value : {0, 1}]
ListsUpTo(S, n) == UNION {[1..k -> S] : k \in 0..n}

\* The state after deployment: two claims are open, the scripts in `running`
\* are about to start, the parameter store holds one of `stores` and the
\* evidence registry one of `lists`.
InitWith(running, stores, lists) ==
    /\ cpt_store \in stores
    /\ claims = [c \in ClaimIds |-> NewClaim(c, Timestamp)]
    /\ nextClaimId = Cardinality(ClaimIds)
    /\ evidences \in lists
    /\ claim_id = [p \in Procs |-> 0]
    /\ bn = [p \in Procs |-> None]
    /\ pc = [p \in Procs |-> IF p \in running THEN "start" ELSE "off"]
    /\ done = [p \in Procs |-> 0]
    /\ ids = [p \in Procs |-> <<>>]
    /\ evidence = [p \in Procs |-> EmptyDict]
    /\ scaled = [p \in Procs |-> NoPair]
    /\ tx = [p \in Procs |-> "none"]
    /\ readback = [p \in Procs |-> NoPair]
    /\ truth = [p \in Procs |-> NoPair]
    /\ dirty = FALSE
    /\ prev_dirty = FALSE
    /\ last = [p \in Procs |-> NoCall]
    /\ failed = [p \in Procs |-> "none"]
    /\ mempool = <<>>
    /\ own = [p \in Procs |-> NoClaim]

\* ------------------------------------------------------------------------
\* Ledger transactions
\* ------------------------------------------------------------------------

\* A physician or sensor files one evidence piece: addEvidence(claimId, index, value).
AddEvidence(c, idx, v) ==
    /\ Len(evidences) < MaxEvidence
    /\ evidences' = Append(evidences, [claimId |-> c, evidenceIndex |-> idx, value |-> v])
    /\ UNCHANGED <<extra, cpt_store, claims, nextClaimId, claim_id, bn, pc, done, locals,
                   ghost, last>>

\* The ledger executes process p's pending submitInference transaction.
Mine(p) ==
    /\ pc[p] = "submitted"
    /\ tx[p] = "pending"
    /\ claims' = submitInference(claims, claim_id[p], scaled[p], Timestamp)
    /\ tx' = [tx EXCEPT ![p] = "mined"]
    /\ dirty' = (dirty \/ (p # "dynamic_claim_flow"
                            /\ claim_id[p] = claim_id["dynamic_claim_flow"]))
    /\ UNCHANGED <<extra, cpt_store, nextClaimId, evidences, claim_id, bn, pc, done, ids,
                   evidence, scaled, readback, truth, prev_dirty, last>>

\* The ledger executes process p's pending openClaim transaction.
MineOpen(p) ==
    /\ pc[p] = "opening"
    /\ tx[p] = "pending"
    /\ claims' = openClaim(claims, nextClaimId, Timestamp)
    /\ nextClaimId' = nextClaimId + 1
    /\ tx' = [tx EXCEPT ![p] = "mined"]
    /\ own' = [own EXCEPT ![p] = nextClaimId]
    /\ UNCHANGED <<failed, mempool, cpt_store, evidences, claim_id, bn, pc, done, ids, evidence,
                   scaled, readback, ghost, last>>

\* ------------------------------------------------------------------------
\* Steps common to the scripts
\* ------------------------------------------------------------------------

\* bn, priors, cpts = build_bn_from_chain(w3)
BuildBn(p) ==
    /\ pc[p] = "start"
    /\ bn' = [bn EXCEPT ![p] = build_bn_from_chain(cpt_store)]
    /\ pc' = [pc EXCEPT ![p] = "ready"]
    /\ UNCHANGED <<extra, chain, claim_id, done, locals, ghost, last>>

\* The pair a call submits: both components of the posterior, scaled.
ScaledPair(posterior) == <<to_scaled(posterior.PPH), to_scaled(posterior.PPR)>>

\* Variant of WaitReceipt: the script goes on without the receipt.
WaitReceipt_nowait(p) ==
    /\ pc[p] = "submitted"
    /\ pc' = [pc EXCEPT ![p] = "confirmed"]
    /\ UNCHANGED <<cpt_store, claims, nextClaimId, evidences, claim_id, bn, done, ids,
                   evidence, scaled, tx, readback, truth, dirty, prev_dirty, last,
                   failed, mempool, own>>

\* receipt = w3.eth.wait_for_transaction_receipt(tx) of a submitInference
WaitReceipt(p) ==
    /\ pc[p] = "submitted"
    /\ tx[p] = "mined"
    /\ pc' = [pc EXCEPT ![p] = "confirmed"]
    /\ UNCHANGED <<extra, chain, claim_id, bn, done, locals, ghost, last>>

\* What a completed call leaves behind for the properties below.
CallRecord(p, outcome) ==
    [outcome |-> outcome, evidence |-> evidence[p], scaled |-> scaled[p],
     readback |-> readback[p], truth |-> truth[p],
     stored |-> Stored(claims[claim_id[p]]),
     sent |-> IF tx[p] = "none" THEN 0 ELSE 1]

\* The call, stage or iteration ends normally: its locals are gone.
Finish(p, outcome) ==
    /\ last' = [last EXCEPT ![p] = CallRecord(p, outcome)]
    /\ done' = [done EXCEPT ![p] = @ + 1]
    /\ pc' = [pc EXCEPT ![p] = "ready"]
    /\ ids' = [ids EXCEPT ![p] = <<>>]
    /\ evidence' = [evidence EXCEPT ![p] = EmptyDict]
    /\ scaled' = [scaled EXCEPT ![p] = NoPair]
    /\ tx' = [tx EXCEPT ![p] = "none"]
    /\ readback' = [readback EXCEPT ![p] = NoPair]
    /\ truth' = [truth EXCEPT ![p] = NoPair]
    /\ UNCHANGED <<extra, chain, claim_id, bn, dirty, prev_dirty>>

\* print(...); the call, stage or iteration is over.
Return(p) ==
    /\ pc[p] = "read"
    /\ Finish(p, "ok")

\* ------------------------------------------------------------------------
\* dynamic_claim_flow.py: _compute_and_commit_posterior
\* ------------------------------------------------------------------------

\* evidence = _fetch_evidence_for_claim(evidence_registry, claim_id)
Fetch(p) ==
    /\ p = "dynamic_claim_flow"
    /\ pc[p] = "ready"
    /\ done[p] < Len(Phases)
    /\ ids' = [ids EXCEPT ![p] = getEvidenceIdsForClaim(evidences, claim_id[p])]
    /\ evidence' = [evidence EXCEPT ![p] = _fetch_evidence_for_claim(evidences, claim_id[p])]
    /\ prev_dirty' = dirty
    /\ dirty' = FALSE
    /\ pc' = [pc EXCEPT ![p] = "fetched"]
    /\ UNCHANGED <<extra, chain, claim_id, bn, done, scaled, tx, readback, truth, last>>

\* Variant of SkipEmpty: the empty snapshot is inferred on (priors only) and
\* committed like any other.
SkipEmpty_commits(p) ==
    /\ pc[p] = "fetched"
    /\ evidence[p] = EmptyDict
    /\ scaled' = [scaled EXCEPT ![p] = <<to_scaled(infer(bn[p], EmptyDict).PPH),
                                         to_scaled(infer(bn[p], EmptyDict).PPR)>>]
    /\ tx' = [tx EXCEPT ![p] = "pending"]
    /\ pc' = [pc EXCEPT ![p] = "submitted"]
    /\ UNCHANGED <<extra, cpt_store, claims, nextClaimId, evidences, claim_id, bn, done, ids,
                   evidence, readback, truth, dirty, prev_dirty, last>>

\* if not evidence: print "... skipping inference"; return
SkipEmpty(p) ==
    /\ pc[p] = "fetched"
    /\ evidence[p] = EmptyDict
    /\ Finish(p, "skipped")

\* posterior = bn.infer(evidence); scale; controller.submitInference(...).transact()
Submit(p) ==
    /\ pc[p] = "fetched"
    /\ evidence[p] # EmptyDict
    /\ LET posterior == infer(bn[p], evidence[p])
       IN  /\ posterior.error = "none"
           /\ scaled' = [scaled EXCEPT ![p] = ScaledPair(posterior)]
    /\ tx' = [tx EXCEPT ![p] = "pending"]
    /\ pc' = [pc EXCEPT ![p] = "submitted"]
    /\ UNCHANGED <<extra, chain, claim_id, bn, done, ids, evidence, readback, ghost, last>>

\* Variant of InferRaises: the error is swallowed and a zero pair is submitted
\* in place of the posterior.
InferRaises_default(p) ==
    /\ pc[p] = "fetched"
    /\ evidence[p] # EmptyDict
    /\ infer(bn[p], evidence[p]).error # "none"
    /\ scaled' = [scaled EXCEPT ![p] = <<0, 0>>]
    /\ tx' = [tx EXCEPT ![p] = "pending"]
    /\ pc' = [pc EXCEPT ![p] = "submitted"]
    /\ UNCHANGED <<extra, cpt_store, claims, nextClaimId, evidences, claim_id, bn, done, ids,
                   evidence, readback, truth, dirty, prev_dirty, last>>

\* bn.infer raises: nothing catches it, the call and the script end with the error.
InferRaises(p) ==
    /\ pc[p] = "fetched"
    /\ evidence[p] # EmptyDict
    /\ infer(bn[p], evidence[p]).error # "none"
    /\ pc' = [pc EXCEPT ![p] = infer(bn[p], evidence[p]).error]
    /\ UNCHANGED <<extra, chain, claim_id, bn, done, locals, ghost, last>>

\* Variant of ReadBack: the pair is taken from positions 2 and 3 of the row.
ReadBack_positions23(p) ==
    /\ p = "dynamic_claim_flow"
    /\ pc[p] = "confirmed"
    /\ readback' = [readback EXCEPT ![p] =
                      <<claims[claim_id[p]][3], claims[claim_id[p]][4]>>]
    /\ truth' = [truth EXCEPT ![p] = <<claims[claim_id[p]][6], claims[claim_id[p]][7]>>]
    /\ pc' = [pc EXCEPT ![p] = "read"]
    /\ UNCHANGED <<extra, cpt_store, claims, nextClaimId, evidences, claim_id, bn, done, ids,
                   evidence, scaled, tx, dirty, prev_dirty, last>>

\* claim_row = claim_registry.functions.claims(claim_id).call(); the posterior
\* is taken from positions 5 and 6 of the row.
ReadBack(p) ==
    /\ p = "dynamic_claim_flow"
    /\ pc[p] = "confirmed"
    /\ readback' = [readback EXCEPT ![p] =
                      <<claims[claim_id[p]][6], claims[claim_id[p]][7]>>]
    /\ truth' = [truth EXCEPT ![p] = Stored(claims[claim_id[p]])]
    /\ pc' = [pc EXCEPT ![p] = "read"]
    /\ UNCHANGED <<extra, chain, claim_id, bn, done, ids, evidence, scaled, tx, dirty,
                   prev_dirty, last>>

\* ------------------------------------------------------------------------
\* claim_lifecycle_demo.py and run_experiment_grid.py: the loop bodies
\* ------------------------------------------------------------------------

\* The evidence of the loop iteration the script is in.
LoopEvidence(p) ==
    IF p = "claim_lifecycle_demo" THEN stages[done[p] + 1] ELSE GridEvidence(done[p])

\* A lifecycle stage starts from "ready"; a grid iteration has opened its claim first.
LoopReady(p) ==
    \/ p = "claim_lifecycle_demo" /\ pc[p] = "ready" /\ done[p] < Len(stages)
    \/ p = "run_experiment_grid" /\ pc[p] = "opened"

\* Variant of StageSubmit: a stage after the first submits again the pair of
\* the stage before it instead of inferring afresh.
StageSubmit_cached(p) ==
    /\ LoopReady(p)
    /\ infer(bn[p], LoopEvidence(p)).error = "none"
    /\ scaled' = [scaled EXCEPT ![p] =
                    IF last[p].outcome = "ok" THEN last[p].scaled
                    ELSE <<to_scaled(infer(bn[p], LoopEvidence(p)).PPH),
                           to_scaled(infer(bn[p], LoopEvidence(p)).PPR)>>]
    /\ evidence' = [evidence EXCEPT ![p] = LoopEvidence(p)]
    /\ tx' = [tx EXCEPT ![p] = "pending"]
    /\ pc' = [pc EXCEPT ![p] = "submitted"]
    /\ UNCHANGED <<extra, cpt_store, claims, nextClaimId, evidences, claim_id, bn, done, ids,
                   readback, truth, dirty, prev_dirty, last>>

\* posterior = bn.infer(evidence); scale; submitInference(...).transact()
StageSubmit(p) ==
    /\ LoopReady(p)
    /\ LET posterior == infer(bn[p], LoopEvidence(p))
       IN  /\ posterior.error = "none"
           /\ scaled' = [scaled EXCEPT ![p] = ScaledPair(posterior)]
    /\ evidence' = [evidence EXCEPT ![p] = LoopEvidence(p)]
    /\ tx' = [tx EXCEPT ![p] = "pending"]
    /\ pc' = [pc EXCEPT ![p] = "submitted"]
    /\ UNCHANGED <<extra, chain, claim_id, bn, done, ids, readback, ghost, last>>

\* bn.infer raises inside the loop: the script ends with the error.
StageInferRaises(p) ==
    /\ LoopReady(p)
    /\ infer(bn[p], LoopEvidence(p)).error # "none"
    /\ evidence' = [evidence EXCEPT ![p] = LoopEvidence(p)]
    /\ pc' = [pc EXCEPT ![p] = infer(bn[p], LoopEvidence(p)).error]
    /\ UNCHANGED <<extra, chain, claim_id, bn, done, ids, scaled, tx, readback, ghost, last>>

\* claim_tuple = claims(claim_id).call(); c_pph = claim_tuple[2]; c_ppr = claim_tuple[3]
StageReadBack(p) ==
    /\ p \in {"claim_lifecycle_demo", "run_experiment_grid"}
    /\ pc[p] = "confirmed"
    /\ readback' = [readback EXCEPT ![p] =
                      <<claims[claim_id[p]][3], claims[claim_id[p]][4]>>]
    /\ truth' = [truth EXCEPT ![p] = Stored(claims[claim_id[p]])]
    /\ pc' = [pc EXCEPT ![p] = "read"]
    /\ UNCHANGED <<extra, chain, claim_id, bn, done, ids, evidence, scaled, tx, dirty,
                   prev_dirty, last>>

\* ------------------------------------------------------------------------
\* run_experiment_grid.py: opening the claim of an iteration
\* ------------------------------------------------------------------------

\* claim_id = claim_registry.functions.openClaim(claim_key).call(): a dry run
\* that returns the id the registry would assign now.
GridAskId(p) ==
    /\ p = "run_experiment_grid"
    /\ pc[p] = "ready"
    /\ done[p] < GridPatterns
    /\ claim_id' = [claim_id EXCEPT ![p] = nextClaimId]
    /\ pc' = [pc EXCEPT ![p] = "asked"]
    /\ UNCHANGED <<extra, chain, bn, done, locals, ghost, last>>

\* tx_open = claim_registry.functions.openClaim(claim_key).transact()
GridOpen(p) ==
    /\ p = "run_experiment_grid"
    /\ pc[p] = "asked"
    /\ tx' = [tx EXCEPT ![p] = "pending"]
    /\ pc' = [pc EXCEPT ![p] = "opening"]
    /\ UNCHANGED <<extra, chain, claim_id, bn, done, ids, evidence, scaled, readback,
                   ghost, last>>

\* w3.eth.wait_for_transaction_receipt(tx_open); then the debug read of the
\* claim inside try/except, whose result is not used.
GridOpened(p) ==
    /\ p = "run_experiment_grid"
    /\ pc[p] = "opening"
    /\ tx[p] = "mined"
    /\ tx' = [tx EXCEPT ![p] = "none"]
    /\ pc' = [pc EXCEPT ![p] = "opened"]
    /\ UNCHANGED <<extra, chain, claim_id, bn, done, ids, evidence, scaled, readback,
                   ghost, last>>

\* ------------------------------------------------------------------------
\* dynamic_claim_flow.py: main
\* ------------------------------------------------------------------------

\* next_claim_before = claim_registry.functions.nextClaimId().call()
MainAskId(p) ==
    /\ p = "dynamic_claim_flow"
    /\ pc[p] = "ready"
    /\ own[p] = NoClaim
    /\ claim_id' = [claim_id EXCEPT ![p] = nextClaimId]
    /\ pc' = [pc EXCEPT ![p] = "asked"]
    /\ UNCHANGED <<chain, bn, done, locals, ghost, last, extra>>

\* tx_hash = controller.functions.openClaim().transact({"from": physician})
MainOpen(p) ==
    /\ p = "dynamic_claim_flow"
    /\ pc[p] = "asked"
    /\ tx' = [tx EXCEPT ![p] = "pending"]
    /\ pc' = [pc EXCEPT ![p] = "opening"]
    /\ UNCHANGED <<chain, claim_id, bn, done, ids, evidence, scaled, readback,
                   ghost, last, extra>>

\* receipt = w3.eth.wait_for_transaction_receipt(tx_hash);
\* claim_id = int(next_claim_before)
MainOpened(p) ==
    /\ p = "dynamic_claim_flow"
    /\ pc[p] = "opening"
    /\ tx[p] = "mined"
    /\ tx' = [tx EXCEPT ![p] = "none"]
    /\ pc' = [pc EXCEPT ![p] = "ready"]
    /\ UNCHANGED <<chain, claim_id, bn, done, ids, evidence, scaled, readback,
                   ghost, last, extra>>

\* The pieces main() files before each call: (index, value).
PhasePieces ==
    << << <<0, 1>>, <<1, 0>> >>,
       << <<2, 1>>, <<3, 0>> >> >>

\* The addEvidence transactions main() has sent so far for its claim.
Sent(p) ==
    Len(mempool) + Cardinality({i \in 1..Len(evidences) : evidences[i].claimId = claim_id[p]})

\* controller.functions.addEvidence(claim_id, idx, value).transact(...), twice:
\* the transaction hashes are dropped, no receipt is waited for.
MainAddEvidence(p) ==
    /\ p = "dynamic_claim_flow"
    /\ pc[p] = "ready"
    /\ own[p] # NoClaim
    /\ done[p] < Len(Phases)
    /\ Sent(p) = 2 * done[p]
    /\ LET pieces == PhasePieces[done[p] + 1]
           row(k) == [claimId |-> claim_id[p], evidenceIndex |-> pieces[k][1],
                      value |-> pieces[k][2]]
       IN  mempool' = mempool \o <<row(1), row(2)>>
    /\ UNCHANGED <<chain, claim_id, bn, pc, done, locals, ghost, last, failed, own>>

\* The ledger executes the oldest pending addEvidence transaction.
MineAddEvidence ==
    /\ mempool # <<>>
    /\ evidences' = Append(evidences, Head(mempool))
    /\ mempool' = Tail(mempool)
    /\ UNCHANGED <<cpt_store, claims, nextClaimId, claim_id, bn, pc, done, locals,
                   ghost, last, failed, own>>

\* ------------------------------------------------------------------------
\* claim_lifecycle_demo.py: opening the claim
\* ------------------------------------------------------------------------

\* tx_open = claim_registry.functions.openClaim(claim_key).transact(...)
LifeOpen(p) ==
    /\ p = "claim_lifecycle_demo"
    /\ pc[p] = "ready"
    /\ own[p] = NoClaim
    /\ tx' = [tx EXCEPT ![p] = "pending"]
    /\ pc' = [pc EXCEPT ![p] = "opening"]
    /\ UNCHANGED <<chain, claim_id, bn, done, ids, evidence, scaled, readback,
                   ghost, last, extra>>

\* receipt_open = wait_for_transaction_receipt(tx_open);
\* next_id = claim_registry.functions.nextClaimId().call(); claim_id = next_id - 1
LifeOpened(p) ==
    /\ p = "claim_lifecycle_demo"
    /\ pc[p] = "opening"
    /\ tx[p] = "mined"
    /\ claim_id' = [claim_id EXCEPT ![p] = nextClaimId - 1]
    /\ tx' = [tx EXCEPT ![p] = "none"]
    /\ pc' = [pc EXCEPT ![p] = "bound"]
    /\ UNCHANGED <<chain, bn, done, ids, evidence, scaled, readback, ghost, last, extra>>

\* ------------------------------------------------------------------------
\* Another party on the same registry
\* ------------------------------------------------------------------------

\* Claims opened by others while the scripts run.
OtherClaims == {c \in DOMAIN claims : claims[c][2] = "other party"}

\* Somebody else's openClaim transaction is executed.
OtherOpens ==
    /\ Cardinality(OtherClaims) < MaxOtherOpens
    /\ claims' = [openClaim(claims, nextClaimId, Timestamp)
                     EXCEPT ![nextClaimId][2] = "other party"]
    /\ nextClaimId' = nextClaimId + 1
    /\ UNCHANGED <<cpt_store, evidences, claim_id, bn, pc, done, locals, ghost, last,
                   extra>>

\* ------------------------------------------------------------------------
\* Failing collaborator calls
\* ------------------------------------------------------------------------

\* The collaborator call the process is about to make, by its position:
\* none of these calls sits inside a try block.
CallSite(p) ==
    IF pc[p] = "start" THEN "getEvidenceTrueCPT"
    ELSE IF pc[p] = "ready" /\ p = "run_experiment_grid" /\ done[p] < GridPatterns
         THEN "openClaim.call"
    ELSE IF pc[p] = "asked" THEN "openClaim.transact"
    ELSE IF pc[p] = "opened" \/ pc[p] = "fetched" THEN "submitInference"
    ELSE IF pc[p] = "confirmed" THEN "claims"
    ELSE "none"

\* A collaborator call outside any try block raises: the exception leaves
\* main() and the run ends with it.
CallFails(p) ==
    /\ CallSite(p) # "none"
    /\ failed' = [failed EXCEPT ![p] = CallSite(p)]
    /\ pc' = [pc EXCEPT ![p] = "Exception"]
    /\ UNCHANGED <<chain, claim_id, bn, done, locals, ghost, last, mempool, own>>

\* run_experiment_grid.py: the debug read claims(claim_id).call() after the
\* open raises inside try/except Exception: a warning is printed and the
\* iteration goes on.
GridDebugReadFails(p) ==
    /\ p = "run_experiment_grid"
    /\ pc[p] = "opening"
    /\ tx[p] = "mined"
    /\ failed' = [failed EXCEPT ![p] = "claims (debug read)"]
    /\ tx' = [tx EXCEPT ![p] = "none"]
    /\ pc' = [pc EXCEPT ![p] = "opened"]
    /\ UNCHANGED <<chain, claim_id, bn, done, ids, evidence, scaled, readback,
                   ghost, last, mempool, own>>

\* ------------------------------------------------------------------------
\* Specifications
\* ------------------------------------------------------------------------

\* The steps of the dynamic flow's calls.
NextDynamic ==
    \/ \E p \in Procs : BuildBn(p)
    \/ \E p \in Procs : Fetch(p)
    \/ \E p \in Procs : SkipEmpty(p)
    \/ \E p \in Procs : Submit(p)
    \/ \E p \in Procs : InferRaises(p)
    \/ \E p \in Procs : Mine(p)
    \/ \E p \in Procs : WaitReceipt(p)
    \/ \E p \in Procs : ReadBack(p)
    \/ \E p \in Procs : Return(p)

\* The steps of the lifecycle demo's stages.
NextLifecycle ==
    \/ \E p \in Procs : StageSubmit(p)
    \/ \E p \in Procs : StageInferRaises(p)
    \/ \E p \in Procs : StageReadBack(p)

\* The dynamic flow's two calls while evidence for its claim keeps arriving.
Init ==
    InitWith({"dynamic_claim_flow"}, {StoreInformative, StoreDeterministic}, {<<>>})

Next ==
    \/ \E idx \in {0, 1}, v \in {0, 1} :
          AddEvidence(claim_id["dynamic_claim_flow"], idx, v)
    \/ NextDynamic

Spec == Init /\ [][Next]_vars

\* The dynamic flow and the lifecycle demo side by side on one claim, the
\* evidence registry already filled.
InitRace ==
    InitWith({"dynamic_claim_flow", "claim_lifecycle_demo"},
             {StoreInformative, StoreDeterministic},
             ListsUpTo(Pieces({0}, {0, 1}), MaxEvidence))

NextRace == NextDynamic \/ NextLifecycle

SpecRace == InitRace /\ [][NextRace]_vars

\* The grid experiment alone, over every parameter store.
InitGrid == InitWith({"run_experiment_grid"}, ParamStores, {<<>>})

NextGrid ==
    \/ \E p \in Procs : BuildBn(p)
    \/ \E p \in Procs : GridAskId(p)
    \/ \E p \in Procs : GridOpen(p)
    \/ \E p \in Procs : MineOpen(p)
    \/ \E p \in Procs : GridOpened(p)
    \/ \E p \in Procs : Mine(p)
    \/ \E p \in Procs : WaitReceipt(p)
    \/ \E p \in Procs : Return(p)
    \/ NextLifecycle

SpecGrid == InitGrid /\ [][NextGrid]_vars

\* One fetch of the dynamic flow over every evidence list, with rows of both
\* claims and indices inside and outside the topology.
InitFold ==
    InitWith({"dynamic_claim_flow"}, {StoreInformative},
             ListsUpTo(Pieces(ClaimIds, 0..4), MaxEvidence))

NextFold ==
    \/ \E p \in Procs : BuildBn(p)
    \/ \E p \in Procs : Fetch(p)

SpecFold == InitFold /\ [][NextFold]_vars

\* Every partial assignment of the four evidence variables (-1: not observed)
\* and the registry rows that file it for claim 0, in index order.
Assignments == [DOMAIN idx_to_name -> {-1, 0, 1}]

RowsOf(a) ==
    SelectSeq([i \in 1..Len(EVIDENCE_NAMES) |->
                  [claimId |-> 0, evidenceIndex |-> i - 1, value |-> a[i - 1]]],
              LAMBDA r : r.value # -1)

\* The parameter stores whose raw values are all inside [0, SCALE].
ValidStores == ParamStores \ {StoreCorrupt}

\* The dynamic flow's calls over every valid parameter store and every
\* partial evidence assignment.
InitInfer ==
    InitWith({"dynamic_claim_flow"}, ValidStores, {RowsOf(a) : a \in Assignments})

SpecInfer == InitInfer /\ [][NextDynamic]_vars

\* The dynamic flow's two calls while evidence keeps arriving, and after them
\* the lifecycle demo's stages.
InitStages ==
    InitWith({"dynamic_claim_flow", "claim_lifecycle_demo"},
             {StoreInformative, StoreDeterministic}, {<<>>})

\* The dynamic flow's run is over: both calls returned, or inference raised.
DynamicOver ==
    LET p == "dynamic_claim_flow"
    IN  \/ pc[p] = "ready" /\ done[p] = Len(Phases)
        \/ pc[p] \in {"DegenerateEvidenceError", "UnknownVariableError"}

NextStages ==
    \/ Next
    \/ \E p \in Procs : DynamicOver /\ StageSubmit(p)
    \/ \E p \in Procs : DynamicOver /\ StageInferRaises(p)
    \/ \E p \in Procs : DynamicOver /\ StageReadBack(p)

SpecStages == InitStages /\ [][NextStages]_vars

\* main() of the dynamic flow: it opens its claim, files the pieces of each
\* phase and calls the sync step, while the ledger executes the pending
\* transactions in its own time.
InitMain ==
    InitWith({"dynamic_claim_flow"}, {StoreInformative, StoreDeterministic}, {<<>>})

NextMain ==
    \/ \E p \in Procs : BuildBn(p)
    \/ \E p \in Procs : MainAskId(p)
    \/ \E p \in Procs : MainOpen(p)
    \/ \E p \in Procs : MineOpen(p)
    \/ \E p \in Procs : MainOpened(p)
    \/ \E p \in Procs : MainAddEvidence(p)
    \/ MineAddEvidence
    \/ \E p \in Procs : Sent(p) = 2 * (done[p] + 1) /\ own[p] # NoClaim /\ Fetch(p)
    \/ \E p \in Procs : SkipEmpty(p)
    \/ \E p \in Procs : Submit(p)
    \/ \E p \in Procs : InferRaises(p)
    \/ \E p \in Procs : Mine(p)
    \/ \E p \in Procs : WaitReceipt(p)
    \/ \E p \in Procs : ReadBack(p)
    \/ \E p \in Procs : Return(p)

SpecMain == InitMain /\ [][NextMain]_vars

\* The three scripts each bind a claim id while another party opens claims on
\* the same registry.
InitBind == InitWith(Procs, {StoreInformative}, {<<>>})

NextBind ==
    \/ \E p \in Procs : BuildBn(p)
    \/ \E p \in Procs : MainAskId(p)
    \/ \E p \in Procs : MainOpen(p)
    \/ \E p \in Procs : MainOpened(p)
    \/ \E p \in Procs : LifeOpen(p)
    \/ \E p \in Procs : LifeOpened(p)
    \/ \E p \in Procs : own[p] = NoClaim /\ GridAskId(p)
    \/ \E p \in Procs : GridOpen(p)
    \/ \E p \in Procs : GridOpened(p)
    \/ \E p \in Procs : MineOpen(p)
    \/ OtherOpens

SpecBind == InitBind /\ [][NextBind]_vars

\* The grid experiment with collaborator calls that may fail.
InitFault ==
    InitWith({"run_experiment_grid"}, {StoreInformative, StoreDeterministic}, {<<>>})

NextFault ==
    \/ NextGrid
    \/ \E p \in Procs : CallFails(p)
    \/ \E p \in Procs : GridDebugReadFails(p)

SpecFault == InitFault /\ [][NextFault]_vars

\* ------------------------------------------------------------------------
\* Properties
\* ------------------------------------------------------------------------

Running == {p \in Procs : pc[p] # "off"}

\* The calls whose submission is in the state: the one in progress and the
\* last one completed, of every process.
Submitted ==
    {[evidence |-> evidence[p], scaled |-> scaled[p]] : p \in {q \in Procs : scaled[q] # NoPair}}
    \cup {[evidence |-> last[p].evidence, scaled |-> last[p].scaled] :
            p \in {q \in Procs : last[q].outcome = "ok"}}

\* C1: a call of the dynamic flow's sync step that completes normally has read
\* back exactly the pair it submitted (a mismatch would have ended it in
\* CommitVerificationError instead).
C1_ReadBackVerified ==
    LET p == "dynamic_claim_flow"
    IN  last[p].outcome = "ok" => last[p].readback = last[p].scaled

\* round(p * SCALE) with ties away from zero, and the clamp to [0, SCALE].
RoundHalfAway(n, d) ==
    LET qr == ScaleDivMod(Abs(n), Abs(d))
    IN  Sign(n, d) * (IF 2 * qr[2] >= Abs(d) THEN qr[1] + 1 ELSE qr[1])

Clamp(x) == IF x < 0 THEN 0 ELSE IF x > SCALE THEN SCALE ELSE x

StoreInRange(store) ==
    /\ store.priorPPH \in 0..SCALE
    /\ store.priorPPR \in 0..SCALE
    /\ \A i \in DOMAIN store.cpt : \A h \in Hidden : store.cpt[i][h] \in 0..SCALE

\* C2: with parameters inside [0, SCALE], every submitted component is the
\* posterior times SCALE rounded to the nearest integer, ties away from zero,
\* clamped to [0, SCALE].
C2_HalfAwayClamped ==
    \A p \in Procs :
        (scaled[p] # NoPair /\ StoreInRange(cpt_store)) =>
            LET posterior == infer(bn[p], evidence[p])
            IN  scaled[p] = <<Clamp(RoundHalfAway(posterior.PPH.n, posterior.PPH.d)),
                              Clamp(RoundHalfAway(posterior.PPR.n, posterior.PPR.d))>>

Extends(a, b) == (DOMAIN b) \subseteq (DOMAIN a) /\ \A n \in DOMAIN b : a[n] = b[n]

C4_Idempotent ==
    LET p == "dynamic_claim_flow"
    IN  (/\ pc[p] = "read"
         /\ last[p].outcome = "ok"
         /\ last[p].evidence = evidence[p]
         /\ ~dirty
         /\ ~prev_dirty) =>
            /\ scaled[p] = last[p].scaled
            /\ readback[p] = scaled[p]
            /\ last[p].readback = last[p].scaled
            /\ Stored(claims[claim_id[p]]) = last[p].stored

C4_Witness ==
    LET p == "dynamic_claim_flow"
    IN  /\ pc[p] = "read"
        /\ last[p].outcome = "ok"
        /\ last[p].evidence = evidence[p]
        /\ ~dirty
        /\ ~prev_dirty
        /\ readback[p] = last[p].readback

\* C5: two calls on the same evidence snapshot submit the same pair, whichever
\* script makes them and whatever was inferred or stored before.
C5_NoCaching ==
    \A a, b \in Submitted : a.evidence = b.evidence => a.scaled = b.scaled

\* C5 witness: the lifecycle demo, after a stage on other evidence, has
\* submitted for the snapshot the dynamic flow committed earlier.
C5_Witness ==
    LET p == "dynamic_claim_flow"
        q == "claim_lifecycle_demo"
    IN  /\ last[p].outcome = "ok"
        /\ last[q].outcome = "ok"
        /\ pc[q] = "submitted"
        /\ evidence[q] = last[p].evidence
        /\ last[q].evidence # evidence[q]
        /\ last[q].stored # last[p].stored

\* C6: of the calls racing on one claim, one that completes normally found
\* its own pair stored in the row at its read-back (a call whose pair was
\* overwritten before that would have ended in CommitVerificationError).
C6_OverwriteSignalled ==
    \A p \in Running : last[p].outcome = "ok" => last[p].truth = last[p].scaled

\* C7: a parameter model is built only from raw values inside [0, SCALE]
\* (anything else ends the load in ParameterRangeError, with no model and no
\* posterior).
C7_RangeChecked ==
    \A p \in Procs :
        (bn[p] # None \/ scaled[p] # NoPair) => StoreInRange(cpt_store)

\* C8: a fetch that returns a snapshot met no evidence index outside the
\* index-to-name map (such an index ends it in TopologyMismatchError).
C8_IndexChecked ==
    \A p \in Procs :
        pc[p] = "fetched" =>
            \A k \in 1..Len(ids[p]) :
                evidences[ids[p][k]].evidenceIndex \in DOMAIN idx_to_name

\* The rows of the registry filed for claim c whose index has a name.
NamedRows(c) ==
    {i \in 1..Len(evidences) :
        evidences[i].claimId = c /\ evidences[i].evidenceIndex \in DOMAIN idx_to_name}

RowName(i) == idx_to_name[evidences[i].evidenceIndex]

\* C9: the fetched snapshot holds exactly the names of the claim's rows, each
\* with the value of the last row filed under that name.
C9_LastWriteWins ==
    \A p \in Procs :
        pc[p] = "fetched" =>
            LET rows == NamedRows(claim_id[p])
            IN  /\ DOMAIN evidence[p] = {RowName(i) : i \in rows}
                /\ \A i \in rows :
                      (\A j \in rows : (RowName(j) = RowName(i)) => j <= i)
                          => evidence[p][RowName(i)] = evidences[i].value

\* C9 witness: the claim has two rows under one name with different values.
C9_Witness ==
    \E p \in Procs :
        /\ pc[p] = "fetched"
        /\ \E i, j \in NamedRows(claim_id[p]) :
              /\ i < j
              /\ RowName(i) = RowName(j)
              /\ evidences[i].value # evidences[j].value

\* Every joint hidden state has weight zero under the evidence.
AllZero(model, e) == \A h \in Hidden : Weights(model, e, Len(EVIDENCE_NAMES))[h] = 0

\* C10: on evidence of probability zero inference ends in
\* DegenerateEvidenceError: the call has no posterior and submits nothing.
C10_DegenerateNotSubmitted ==
    \A p \in Running :
        /\ (bn[p] # None /\ evidence[p] # EmptyDict /\ AllZero(bn[p], evidence[p])) =>
              /\ infer(bn[p], evidence[p]).error = "DegenerateEvidenceError"
              /\ scaled[p] = NoPair
              /\ tx[p] = "none"
              /\ pc[p] \in {"fetched", "DegenerateEvidenceError"}
        /\ last[p].outcome = "ok" => ~AllZero(bn[p], last[p].evidence)

C10_Witness ==
    \E p \in Running :
        /\ pc[p] = "DegenerateEvidenceError"
        /\ AllZero(bn[p], evidence[p])
        /\ last[p].outcome = "ok"

\* C11: a run in which a collaborator call failed has ended with that failure
\* (it was not caught, and the run did not go on to submit).
C11_ErrorsSurfaced ==
    \A p \in Running : failed[p] # "none" => pc[p] = "Exception"

\* The weights of the four joint states under the process's call.
CallWeights(p) == Weights(bn[p], evidence[p], Len(EVIDENCE_NAMES))

Total(w) == w[<<0, 0>>] + w[<<0, 1>>] + w[<<1, 0>>] + w[<<1, 1>>]

\* C12: for a valid parameter model, whenever a call has a posterior the four
\* joint weights are non-negative with a positive total (so the normalised
\* weights sum to 1), both marginals are sums of normalised weights inside
\* [0, 1], and both submitted components lie in [0, SCALE].
C12_WellFormed ==
    \A p \in Running :
        scaled[p] # NoPair =>
            LET w         == CallWeights(p)
                posterior == infer(bn[p], evidence[p])
            IN  /\ \A h \in Hidden : w[h] >= 0
                /\ Total(w) > 0
                /\ posterior.PPH = [n |-> w[<<1, 0>>] + w[<<1, 1>>], d |-> Total(w)]
                /\ posterior.PPR = [n |-> w[<<0, 1>>] + w[<<1, 1>>], d |-> Total(w)]
                /\ 0 <= posterior.PPH.n /\ posterior.PPH.n <= posterior.PPH.d
                /\ 0 <= posterior.PPR.n /\ posterior.PPR.n <= posterior.PPR.d
                /\ scaled[p][1] \in 0..SCALE
                /\ scaled[p][2] \in 0..SCALE

\* C12 witness: a posterior strictly inside (0, 1) on a full assignment, and
\* the row holds its scaled pair.
C12_Witness ==
    \E p \in Running :
        /\ pc[p] = "read"
        /\ DOMAIN evidence[p] = Names
        /\ scaled[p][1] \notin {0, SCALE, priorPPH(cpt_store)}
        /\ Stored(claims[claim_id[p]]) = scaled[p]

\* C13: with every CPT cell at 0.5, inference returns exactly the marginal
\* priors for the empty and for every other evidence assignment, and the pair
\* submitted and stored is the scaled priors.
C13_NeutralKeepsPriors ==
    \A p \in Running :
        (cpt_store = StoreNeutral /\ bn[p] # None) =>
            /\ infer(bn[p], EmptyDict).error = "none"
            /\ infer(bn[p], EmptyDict).PPH.n * SCALE
                  = priorPPH(cpt_store) * infer(bn[p], EmptyDict).PPH.d
            /\ infer(bn[p], EmptyDict).PPR.n * SCALE
                  = priorPPR(cpt_store) * infer(bn[p], EmptyDict).PPR.d
            /\ pc[p] # "DegenerateEvidenceError"
            /\ scaled[p] # NoPair =>
                  LET posterior == infer(bn[p], evidence[p])
                  IN  /\ posterior.PPH.n * SCALE = priorPPH(cpt_store) * posterior.PPH.d
                      /\ posterior.PPR.n * SCALE = priorPPR(cpt_store) * posterior.PPR.d
                      /\ scaled[p] = <<priorPPH(cpt_store), priorPPR(cpt_store)>>
            /\ last[p].outcome = "ok" =>
                  last[p].stored = <<priorPPH(cpt_store), priorPPR(cpt_store)>>

\* C13 witness: on the neutral store a second call, on an assignment with
\* both a 1 and a 0 in it, has read back after a first one completed.
C13_Witness ==
    \E p \in Running :
        /\ cpt_store = StoreNeutral
        /\ pc[p] = "read"
        /\ last[p].outcome = "ok"
        /\ evidence[p] # EmptyDict
        /\ \E n \in DOMAIN evidence[p] : evidence[p][n] = 1
        /\ \E n \in DOMAIN evidence[p] : evidence[p][n] = 0

\* The process holds the evidence snapshot of a call or stage in progress.
HasSnapshot(p) == pc[p] \in {"fetched", "submitted", "confirmed", "read"}

\* C14 (as stated): the snapshot of every call or stage after the first
\* extends the snapshot of the one before it, in the lifecycle demo and in
\* the dynamic flow alike.
C14_Monotone ==
    \A p \in Running :
        (HasSnapshot(p) /\ last[p].outcome # "none") =>
            Extends(evidence[p], last[p].evidence)

\* C14: every lifecycle stage extends the stage before it; a snapshot folded
\* from the registry keeps every variable of the previous one, and a
\* variable's value differs from the previous one only if the registry holds
\* an earlier piece with the old value and a later piece with the new one.
C14_NamesMonotone ==
    /\ LET q == "claim_lifecycle_demo"
       IN  (HasSnapshot(q) /\ last[q].outcome # "none") =>
               Extends(evidence[q], last[q].evidence)
    /\ LET p == "dynamic_claim_flow"
       IN  (HasSnapshot(p) /\ last[p].outcome # "none") =>
               /\ (DOMAIN last[p].evidence) \subseteq (DOMAIN evidence[p])
               /\ \A n \in DOMAIN last[p].evidence :
                     evidence[p][n] # last[p].evidence[n] =>
                        \E i, j \in NamedRows(claim_id[p]) :
                            /\ i < j
                            /\ RowName(i) = n /\ RowName(j) = n
                            /\ evidences[i].value = last[p].evidence[n]
                            /\ evidences[j].value = evidence[p][n]

\* C14 witness: the second call's snapshot has another value for a variable
\* of the first call's snapshot.
C14_Witness ==
    LET p == "dynamic_claim_flow"
    IN  /\ pc[p] = "fetched"
        /\ last[p].outcome = "ok"
        /\ \E n \in DOMAIN last[p].evidence : evidence[p][n] # last[p].evidence[n]

\* C15: within a run, a stage submits the pair it has just inferred, reads
\* back only after its submission is confirmed, and a stage that has
\* submitted follows a stage whose read-back is complete.
C15_FixedOrder ==
    \A p \in Running :
        /\ scaled[p] # NoPair =>
              /\ tx[p] \in {"pending", "mined"}
              /\ scaled[p] = ScaledPair(infer(bn[p], evidence[p]))
        /\ tx[p] = "pending" => pc[p] \in {"submitted", "opening"} /\ readback[p] = NoPair
        /\ pc[p] \in {"confirmed", "read"} => tx[p] = "mined"
        /\ readback[p] # NoPair => pc[p] = "read" /\ tx[p] = "mined"
        /\ (scaled[p] # NoPair /\ last[p].outcome = "ok") =>
              /\ last[p].sent = 1
              /\ last[p].readback # NoPair

\* C15 witness: the lifecycle demo has read back in a stage after its first.
C15_Witness ==
    LET q == "claim_lifecycle_demo"
    IN  /\ pc[q] = "read"
        /\ done[q] >= 1
        /\ last[q].outcome = "ok"
        /\ readback[q] # NoPair

\* The snapshot main() has filed for its claim when it makes call k.
PhaseEvidence(k) ==
    IF k = 1 THEN Put(Dict1("GPS", 1), "PC", 0)
    ELSE Put(Put(Put(Dict1("GPS", 1), "PC", 0), "PMD", 1), "PR", 0)

\* C16: the snapshot a phase fetches holds every piece main() sent before the
\* fetch: {GPS:1, PC:0} in Phase 1, all four pieces in Phase 2.
C16_SnapshotComplete ==
    LET p == "dynamic_claim_flow"
    IN  (pc[p] = "fetched" /\ own[p] # NoClaim) => evidence[p] = PhaseEvidence(done[p] + 1)

\* The script has finished deriving the id of its claim.
Bound(p) ==
    /\ own[p] # NoClaim
    /\ \/ p = "dynamic_claim_flow" /\ pc[p] = "ready"
       \/ p = "claim_lifecycle_demo" /\ pc[p] = "bound"
       \/ p = "run_experiment_grid" /\ pc[p] = "opened"

\* C17: the claim id a script has derived is the id of the claim its own
\* openClaim transaction created, whatever others open on the registry.
C17_BoundToOwn ==
    \A p \in Running : Bound(p) => claim_id[p] = own[p]

\* C18: the pair a script reads back after its submission is the pair held by
\* the posterior fields of the claim row at that moment.
C18_ReadsPosteriorFields ==
    \A p \in Running : last[p].outcome = "ok" => last[p].readback = last[p].truth

====
